---- MODULE Spec2Model ----
(***************************************************************************)
(* A model of split_srt.py: the SRT parser (parse_srt_time,                *)
(* parse_srt_file), the window partitioner (split_srt_by_time) and the     *)
(* driver (main) that writes one or two files per window.                  *)
(*                                                                         *)
(* Times are held in milliseconds, so that the value                       *)
(* h*3600 + m*60 + s + ms/1000 of parse_srt_time is an integer; every      *)
(* comparison of the partitioner is between such values and is unchanged   *)
(* by the common factor 1000.                                              *)
(***************************************************************************)
EXTENDS Integers, Sequences, FiniteSets, TLC

VARIABLES
    caller,                 \* "direct": split_srt_by_time is called on its own; "main": by main()
    pc,                     \* the position of the run
    input_exists,           \* whether open(input_file) finds the file
    blocks,                 \* the file's content, as content.strip().split('\n\n')
    output_dir_arg,         \* args.output_dir (None when absent)
    output_format,          \* args.format
    chunk_duration_minutes, \* args.duration / the second parameter of split_srt_by_time
    overlap_minutes,        \* args.overlap / the third parameter of split_srt_by_time
    subtitles,              \* the list of entries
    total_duration,         \* split_srt_by_time's local
    chunk_start,            \* split_srt_by_time's local
    chunk_number,           \* split_srt_by_time's local
    chunks,                 \* split_srt_by_time's result list
    iters,                  \* history: loop iterations of split_srt_by_time done so far
    output_dir,             \* main's local
    dirs,                   \* directories created by os.makedirs
    files,                  \* files written by save_chunk_as_srt / save_chunk_as_txt
    saved,                  \* main's position in "for chunk in chunks"
    printed                 \* the last diagnostic main printed

vars == <<caller, pc, input_exists, blocks, output_dir_arg, output_format,
          chunk_duration_minutes, overlap_minutes, subtitles, total_duration,
          chunk_start, chunk_number, chunks, iters, output_dir, dirs, files,
          saved, printed>>

splitVars == <<total_duration, chunk_start, chunk_number, chunks, iters>>
mainVars == <<output_dir, dirs, files, saved, printed>>
inputVars == <<caller, input_exists, blocks, output_dir_arg, output_format,
               chunk_duration_minutes, overlap_minutes>>

----------------------------------------------------------------------------
(* Bounds of the model *)

MaxEntries == 2     \* entries of a list handed to split_srt_by_time directly
MaxTick == 4        \* entry times are 0, TimeStep, ..., MaxTick * TimeStep
TimeStep == 30000   \* milliseconds between two entry times of the grid
MaxMinutes == 2     \* chunk_duration_minutes and overlap_minutes range over 0..MaxMinutes
MaxIter == 5        \* cap on loop iterations (only a run with overlap >= duration reaches it)
MaxBlocks == 2      \* blocks of an input file
MaxLiveEntries == 1 \* entries of a list in the runs checked for termination

(* Program constants *)

SecondsPerMinute == 60
SecondsPerHour == 3600
MsPerSecond == 1000

\* args.output_dir is None (a directory name is a sequence of its pieces)
NoDir == <<>>

\* nothing printed yet
None == "None"

----------------------------------------------------------------------------
(* split_srt_by_time *)

\* chunk_duration = chunk_duration_minutes * 60, in milliseconds
ChunkDuration(minutes) == minutes * SecondsPerMinute * MsPerSecond

\* overlap_duration = overlap_minutes * 60, in milliseconds
OverlapDuration(minutes) == minutes * SecondsPerMinute * MsPerSecond

RECURSIVE MaxEnd(_, _)
\* max(sub['end'] for sub in subs[i..]), subs non-empty
MaxEnd(subs, i) ==
    IF i = Len(subs) THEN subs[i].end
    ELSE LET rest == MaxEnd(subs, i + 1)
         IN IF subs[i].end >= rest THEN subs[i].end ELSE rest

\* total_duration = max(sub['end'] for sub in subtitles)
TotalDuration(subs) == MaxEnd(subs, 1)

\* chunk_end = chunk_start + chunk_duration
ChunkEnd(cs, dur) == cs + dur

NextChunkStartStuck(ce, dur, ov) == ce - dur

NextChunkStartForward(ce, dur, ov) == ce + ov

NextChunkStartNoOverlap(ce, dur, ov) == ce

\* next_chunk_start = chunk_end - overlap_duration
NextChunkStart(ce, dur, ov) == ce - ov

InChunkInclusiveEnd(sub, cs, ce) ==
    \/ (sub.start >= cs /\ sub.start <= ce)
    \/ (sub.end > cs /\ sub.start <= ce)

\* the condition under which the loop appends sub to chunk_subtitles
InChunk(sub, cs, ce) ==
    \/ (sub.start >= cs /\ sub.start < ce)
    \/ (sub.end > cs /\ sub.start < ce)

RECURSIVE ChunkSubtitles(_, _, _, _)
\* "for sub in subtitles: if ...: chunk_subtitles.append(sub)", from position i
\* on. An entry is referenced, not copied: it is named by its position in subs.
ChunkSubtitles(subs, i, cs, ce) ==
    IF i > Len(subs) THEN <<>>
    ELSE (IF InChunk(subs[i], cs, ce) THEN <<i>> ELSE <<>>)
         \o ChunkSubtitles(subs, i + 1, cs, ce)

RECURSIVE MinStart(_, _, _)
\* min(sub['start'] for sub in chunk_subtitles[i..])
MinStart(subs, sel, i) ==
    IF i = Len(sel) THEN subs[sel[i]].start
    ELSE LET rest == MinStart(subs, sel, i + 1)
         IN IF subs[sel[i]].start <= rest THEN subs[sel[i]].start ELSE rest

RECURSIVE MaxEndOf(_, _, _)
\* max(sub['end'] for sub in chunk_subtitles[i..])
MaxEndOf(subs, sel, i) ==
    IF i = Len(sel) THEN subs[sel[i]].end
    ELSE LET rest == MaxEndOf(subs, sel, i + 1)
         IN IF subs[sel[i]].end >= rest THEN subs[sel[i]].end ELSE rest

\* the dict appended to chunks
Chunk(subs, sel, num, cs, ce) ==
    [number        |-> num,
     start_time    |-> MinStart(subs, sel, 1),
     end_time      |-> MaxEndOf(subs, sel, 1),
     subtitles     |-> sel,
     planned_start |-> cs,
     planned_end   |-> ce]

\* "if chunk_subtitles: chunks.append({...})"
AppendChunk(subs, sel, num, cs, ce, cks) ==
    IF sel # <<>> THEN Append(cks, Chunk(subs, sel, num, cs, ce)) ELSE cks

NextChunkNumberAlways(sel, num) == num + 1

\* "if chunk_subtitles: ... chunk_number += 1"
NextChunkNumber(sel, num) == IF sel # <<>> THEN num + 1 ELSE num

\* lines 61-71: the conversions, the empty-list return, the locals
SplitEnter ==
    /\ pc = "split"
    /\ IF subtitles = <<>>
       THEN /\ pc' = "returned"
            /\ chunks' = <<>>
            /\ UNCHANGED <<total_duration, chunk_start, chunk_number>>
       ELSE /\ pc' = "loop"
            /\ chunks' = <<>>
            /\ total_duration' = TotalDuration(subtitles)
            /\ chunk_start' = 0
            /\ chunk_number' = 1
    /\ UNCHANGED <<iters, subtitles>>
    /\ UNCHANGED inputVars
    /\ UNCHANGED mainVars

\* lines 73-108: one iteration of "while chunk_start < total_duration",
\* ended by the break or by the jump back to the loop's head
SplitIter ==
    /\ pc = "loop"
    /\ chunk_start < total_duration
    /\ iters < MaxIter
    /\ LET dur == ChunkDuration(chunk_duration_minutes)
           ov == OverlapDuration(overlap_minutes)
           chunk_end == ChunkEnd(chunk_start, dur)
           next_chunk_start == NextChunkStart(chunk_end, dur, ov)
           chunk_subtitles == ChunkSubtitles(subtitles, 1, chunk_start, chunk_end)
       IN /\ chunks' = AppendChunk(subtitles, chunk_subtitles, chunk_number,
                                   chunk_start, chunk_end, chunks)
          /\ chunk_number' = NextChunkNumber(chunk_subtitles, chunk_number)
          /\ chunk_start' = next_chunk_start
          /\ pc' = IF next_chunk_start >= total_duration THEN "returned" ELSE "loop"
    /\ iters' = iters + 1
    /\ UNCHANGED <<total_duration, subtitles>>
    /\ UNCHANGED inputVars
    /\ UNCHANGED mainVars

\* line 73 false, line 110: the while condition ends the loop
SplitExit ==
    /\ pc = "loop"
    /\ ~(chunk_start < total_duration)
    /\ pc' = "returned"
    /\ UNCHANGED <<subtitles>>
    /\ UNCHANGED splitVars
    /\ UNCHANGED inputVars
    /\ UNCHANGED mainVars

----------------------------------------------------------------------------
(* The partitioner called on its own, with any entry list *)

Times == {k * TimeStep : k \in 0..MaxTick}

Entries == [number : {1}, start : Times, end : Times, text : {<<"a">>}]

EntryLists == UNION {[1..n -> Entries] : n \in 0..MaxEntries}

Minutes == 0..MaxMinutes

InitWith(lists) ==
    /\ caller = "direct"
    /\ pc = "split"
    /\ input_exists = TRUE
    /\ blocks = <<>>
    /\ output_dir_arg = NoDir
    /\ output_format = "both"
    /\ chunk_duration_minutes \in Minutes
    /\ overlap_minutes \in Minutes
    /\ subtitles \in lists
    /\ total_duration = 0
    /\ chunk_start = 0
    /\ chunk_number = 1
    /\ chunks = <<>>
    /\ iters = 0
    /\ output_dir = NoDir
    /\ dirs = {}
    /\ files = {}
    /\ saved = 0
    /\ printed = None

Init == InitWith(EntryLists)

Next ==
    \/ SplitEnter
    \/ SplitIter
    \/ SplitExit

Spec == Init /\ [][Next]_vars

\* The runs checked for termination: whether and when the loop ends depends
\* on the list only through its largest end, so short lists are drawn.
LiveEntryLists == UNION {[1..n -> Entries] : n \in 0..MaxLiveEntries}

FairInit == InitWith(LiveEntryLists)

\* the interpreter runs the loop on: a step that can be taken is taken
FairSpec == FairInit /\ [][Next]_vars /\ WF_vars(Next)

----------------------------------------------------------------------------
(* parse_srt_time, parse_srt_file *)

(* A timestamp text is held as time_str.split(',') would cut it, each piece  *)
(* as split(':') would cut it: "00:01:00,000" is                             *)
(* <<<<"00", "01", "00">>, <<"000">>>>. Line 2 of a block is held as         *)
(* split(' --> ') would cut it: a line without the separator has one piece.  *)
(* A block is its first line, its second line and the lines after it; a      *)
(* block of the model has at least two lines.                                *)

\* int(s): the texts int() accepts, with their values; any other text raises ValueError
IntValue ==
    ("00" :> 0) @@ ("01" :> 1) @@ ("02" :> 2) @@ ("000" :> 0) @@ ("500" :> 500)
    @@ ("1" :> 1) @@ ("2" :> 2)

IsInt(s) == s \in DOMAIN IntValue

\* whether parse_srt_time(ts) raises ValueError: the unpacking of
\* split(','), the unpacking of map(int, split(':')), or an int() call
TimeRaises(ts) ==
    \/ Len(ts) # 2
    \/ Len(ts[1]) # 3
    \/ \E k \in 1..Len(ts[1]) : ~IsInt(ts[1][k])
    \/ Len(ts[2]) # 1
    \/ ~IsInt(ts[2][1])

\* h * 3600 + m * 60 + s + ms / 1000, in milliseconds
parse_srt_time(ts) ==
    (IntValue[ts[1][1]] * SecondsPerHour
     + IntValue[ts[1][2]] * SecondsPerMinute
     + IntValue[ts[1][3]]) * MsPerSecond
    + IntValue[ts[2][1]]

\* len(lines)
NumLines(b) == 2 + Len(b.text)

MinLines == 3

ParseBlockTimesFirst(b) ==
    IF Len(b.line2) # 2 \/ TimeRaises(b.line2[1]) \/ TimeRaises(b.line2[2])
    THEN [kind |-> "raise"]
    ELSE IF NumLines(b) >= MinLines /\ IsInt(b.first)
         THEN [kind |-> "entry",
               entry |-> [number |-> IntValue[b.first],
                          start  |-> parse_srt_time(b.line2[1]),
                          end    |-> parse_srt_time(b.line2[2]),
                          text   |-> b.text]]
         ELSE [kind |-> "skip"]

ParseBlockSkipBadTimes(b) ==
    IF NumLines(b) >= MinLines /\ IsInt(b.first) /\ Len(b.line2) = 2
       /\ ~TimeRaises(b.line2[1]) /\ ~TimeRaises(b.line2[2])
    THEN [kind |-> "entry",
          entry |-> [number |-> IntValue[b.first],
                     start  |-> parse_srt_time(b.line2[1]),
                     end    |-> parse_srt_time(b.line2[2]),
                     text   |-> b.text]]
    ELSE [kind |-> "skip"]

\* the body of "for block in blocks": skip the block, raise, or append an entry
ParseBlock(b) ==
    IF NumLines(b) < MinLines THEN [kind |-> "skip"]
    ELSE IF ~IsInt(b.first) THEN [kind |-> "skip"]
    ELSE IF Len(b.line2) < 2 THEN [kind |-> "skip"]
    ELSE IF Len(b.line2) # 2 THEN [kind |-> "raise"]
    ELSE IF TimeRaises(b.line2[1]) THEN [kind |-> "raise"]
    ELSE IF TimeRaises(b.line2[2]) THEN [kind |-> "raise"]
    ELSE [kind |-> "entry",
          entry |-> [number |-> IntValue[b.first],
                     start  |-> parse_srt_time(b.line2[1]),
                     end    |-> parse_srt_time(b.line2[2]),
                     text   |-> b.text]]

RECURSIVE ParseBlocks(_, _, _)
\* the loop over blocks from block i on, subs being the entries so far
ParseBlocks(bs, i, subs) ==
    IF i > Len(bs) THEN [raised |-> FALSE, subtitles |-> subs]
    ELSE LET r == ParseBlock(bs[i])
         IN IF r.kind = "raise" THEN [raised |-> TRUE, subtitles |-> <<>>]
            ELSE IF r.kind = "skip" THEN ParseBlocks(bs, i + 1, subs)
            ELSE ParseBlocks(bs, i + 1, Append(subs, r.entry))

\* parse_srt_file on a file that exists: the list, or an exception
parse_srt_file(bs) == ParseBlocks(bs, 1, <<>>)

----------------------------------------------------------------------------
(* main *)

\* os.path.splitext(os.path.basename(input_file))[0]
BaseName == "talk"

\* f"{base_name}_chunks"
AutoDir == <<BaseName, "_chunks">>

\* the literal of line 197
FixedDir == <<"session_chunks">>

\* lines 153-169: the configuration and the output directory
MainConfigure ==
    /\ caller = "main"
    /\ pc = "start"
    /\ output_dir' = IF output_dir_arg # NoDir THEN output_dir_arg ELSE AutoDir
    /\ pc' = "parse"
    /\ UNCHANGED <<dirs, files, saved, printed, subtitles>>
    /\ UNCHANGED splitVars
    /\ UNCHANGED inputVars

\* lines 172-189: the try block around parse_srt_file and its three returns
MainParse ==
    /\ caller = "main"
    /\ pc = "parse"
    /\ IF ~input_exists
       THEN /\ printed' = "file not found"
            /\ pc' = "done"
            /\ UNCHANGED subtitles
       ELSE LET r == parse_srt_file(blocks)
            IN IF r.raised
               THEN /\ printed' = "error parsing"
                    /\ pc' = "done"
                    /\ UNCHANGED subtitles
               ELSE /\ subtitles' = r.subtitles
                    /\ IF r.subtitles = <<>>
                       THEN /\ printed' = "no subtitles"
                            /\ pc' = "done"
                       ELSE /\ printed' = "loaded"
                            /\ pc' = "split"
    /\ UNCHANGED <<output_dir, dirs, files, saved>>
    /\ UNCHANGED splitVars
    /\ UNCHANGED inputVars

\* lines 193-198: split_srt_by_time has returned; the directory is created
MainMakeDir ==
    /\ caller = "main"
    /\ pc = "returned"
    /\ output_dir' = FixedDir
    /\ dirs' = dirs \cup {FixedDir}
    /\ saved' = 0
    /\ printed' = "created chunks"
    /\ pc' = "save"
    /\ UNCHANGED <<files, subtitles>>
    /\ UNCHANGED splitVars
    /\ UNCHANGED inputVars

\* the file save_chunk_as_srt / save_chunk_as_txt writes: its directory, the
\* chunk number of its name chunk_NN, its extension, the entries it holds
ChunkFile(dir, chunk, ext) ==
    [dir |-> dir, number |-> chunk.number, ext |-> ext, entries |-> chunk.subtitles]

\* lines 209-215: the files of one chunk under the chosen format
ChunkFiles(dir, chunk, format) ==
    (IF format \in {"srt", "both"} THEN {ChunkFile(dir, chunk, "srt")} ELSE {})
    \cup (IF format \in {"txt", "both"} THEN {ChunkFile(dir, chunk, "txt")} ELSE {})

\* lines 201-215: one iteration of "for chunk in chunks"
MainSaveChunk ==
    /\ caller = "main"
    /\ pc = "save"
    /\ saved < Len(chunks)
    /\ files' = files \cup ChunkFiles(output_dir, chunks[saved + 1], output_format)
    /\ saved' = saved + 1
    /\ UNCHANGED <<output_dir, dirs, printed, pc, subtitles>>
    /\ UNCHANGED splitVars
    /\ UNCHANGED inputVars

\* lines 217-224: the loop is over, the closing messages
MainFinish ==
    /\ caller = "main"
    /\ pc = "save"
    /\ saved = Len(chunks)
    /\ printed' = "all chunks saved"
    /\ pc' = "done"
    /\ UNCHANGED <<output_dir, dirs, files, saved, subtitles>>
    /\ UNCHANGED splitVars
    /\ UNCHANGED inputVars

(* The input files of the model *)

Stamp0 == <<<<"00", "00", "00">>, <<"000">>>>
Stamp1 == <<<<"00", "01", "00">>, <<"000">>>>
Stamp2 == <<<<"00", "02", "00">>, <<"500">>>>
StampNoComma == <<<<"00", "00", "00">>>>
StampTwoFields == <<<<"01", "00">>, <<"000">>>>
StampNonInt == <<<<"00", "xx", "00">>, <<"000">>>>

Block(first, line2, text) == [first |-> first, line2 |-> line2, text |-> text]

Blocks ==
    { Block("1", <<Stamp0, Stamp1>>, <<"hello">>),
      Block("2", <<Stamp1, Stamp2>>, <<"a", "b">>),
      Block("1", <<Stamp0, Stamp0>>, <<"hello">>),
      Block("1", <<Stamp0, Stamp1>>, <<>>),
      Block("2", <<Stamp0, StampNoComma>>, <<>>),
      Block("abc", <<Stamp0, Stamp1>>, <<"hello">>),
      Block("abc", <<StampNonInt, Stamp1>>, <<"hello">>),
      Block("1", <<Stamp0>>, <<"hello">>),
      Block("2", <<StampNonInt>>, <<"hello">>),
      Block("1", <<Stamp0, StampNoComma>>, <<"hello">>),
      Block("2", <<StampNonInt, Stamp1>>, <<"hello">>),
      Block("2", <<StampTwoFields, Stamp2>>, <<"hello">>),
      Block("1", <<Stamp0, Stamp1, Stamp2>>, <<"hello">>) }

BlockLists == UNION {[1..n -> Blocks] : n \in 0..MaxBlocks}

MainInit ==
    /\ caller = "main"
    /\ pc = "start"
    /\ input_exists \in BOOLEAN
    /\ blocks \in (IF input_exists THEN BlockLists ELSE {<<>>})
    /\ output_dir_arg \in {NoDir, <<"out">>}
    /\ output_format \in {"srt", "txt", "both"}
    /\ chunk_duration_minutes \in Minutes
    /\ overlap_minutes \in Minutes
    /\ subtitles = <<>>
    /\ total_duration = 0
    /\ chunk_start = 0
    /\ chunk_number = 1
    /\ chunks = <<>>
    /\ iters = 0
    /\ output_dir = NoDir
    /\ dirs = {}
    /\ files = {}
    /\ saved = 0
    /\ printed = None

MainNext ==
    \/ MainConfigure
    \/ MainParse
    \/ SplitEnter
    \/ SplitIter
    \/ SplitExit
    \/ MainMakeDir
    \/ MainSaveChunk
    \/ MainFinish

MainSpec == MainInit /\ [][MainNext]_vars

----------------------------------------------------------------------------
(* The properties *)

Dur == chunk_duration_minutes * 60 * 1000
Ov == overlap_minutes * 60 * 1000

Positions == 1..Len(subtitles)

\* the entries (positions of the input list) that window w holds
Members(w) == {chunks[w].subtitles[a] : a \in 1..Len(chunks[w].subtitles)}

Windows == 1..Len(chunks)

\* the largest end of the input list (the list is not empty)
LastEnd == CHOOSE t \in {subtitles[i].end : i \in Positions} :
               \A i \in Positions : subtitles[i].end <= t

\* the planned start of loop iteration k, k counted from 0
PlannedStart(k) == k * (Dur - Ov)

\* entry i meets the selection condition of the planned range [ps, pe)
Selected(i, ps, pe) ==
    \/ (ps <= subtitles[i].start /\ subtitles[i].start < pe)
    \/ (subtitles[i].end > ps /\ subtitles[i].start < pe)

\* C1: when split_srt_by_time has returned for a non-empty list whose entries
\* all have 0 <= start <= end, with chunk_duration > overlap > 0, every entry
\* is a member of at least one returned window.
C1_NoEntryDropped ==
    (/\ pc = "returned"
     /\ subtitles # <<>>
     /\ \A i \in Positions : 0 <= subtitles[i].start /\ subtitles[i].start <= subtitles[i].end
     /\ Dur > Ov /\ Ov > 0)
    => \A i \in Positions : \E w \in Windows : i \in Members(w)

\* C2 as stated: with chunk_duration > overlap > 0, for every iteration k done,
\* every entry starting in [next_planned_start, planned_end) is in the window
\* of iteration k and in a window of iteration k+1, whose planned range starts
\* at next_planned_start.
C2_OverlapInBothWindows ==
    (pc = "returned" /\ subtitles # <<>> /\ Dur > Ov /\ Ov > 0)
    => \A k \in 0..(iters - 1) : \A i \in Positions :
           LET ps == PlannedStart(k)
               pe == ps + Dur
               nps == pe - Ov
           IN (nps <= subtitles[i].start /\ subtitles[i].start < pe)
              => /\ \E w \in Windows : chunks[w].planned_start = ps /\ i \in Members(w)
                 /\ \E w \in Windows : chunks[w].planned_start = nps /\ i \in Members(w)

\* C2 as amended: the same, for the iterations k whose next_planned_start is
\* below total_duration (the break has not ended the loop after iteration k).
C2_OverlapInBothWindowsUnlessLast ==
    (pc = "returned" /\ subtitles # <<>> /\ Dur > Ov /\ Ov > 0)
    => \A k \in 0..(iters - 1) : \A i \in Positions :
           LET ps == PlannedStart(k)
               pe == ps + Dur
               nps == pe - Ov
           IN (nps <= subtitles[i].start /\ subtitles[i].start < pe /\ nps < LastEnd)
              => /\ \E w \in Windows : chunks[w].planned_start = ps /\ i \in Members(w)
                 /\ \E w \in Windows : chunks[w].planned_start = nps /\ i \in Members(w)

\* an entry of the overlap region of the first window lies in two returned windows
C2_Witness ==
    /\ pc = "returned" /\ subtitles # <<>> /\ Dur > Ov /\ Ov > 0
    /\ Len(chunks) >= 2
    /\ \E i \in Positions :
          /\ Dur - Ov <= subtitles[i].start /\ subtitles[i].start < Dur
          /\ Dur - Ov < LastEnd
          /\ i \in Members(1) /\ i \in Members(2)

\* C3: with chunk_duration > overlap >= 0, every iteration moves chunk_start up
\* by chunk_duration - overlap > 0, and split_srt_by_time eventually returns.
C3_Terminates ==
    /\ [][(Dur > Ov /\ Ov >= 0 /\ pc = "loop" /\ iters' = iters + 1)
            => (chunk_start' = chunk_start + (Dur - Ov) /\ chunk_start' > chunk_start)]_vars
    /\ \A d, o \in Minutes :
          (d * 60 > o * 60 /\ o * 60 >= 0)
          => ((chunk_duration_minutes = d /\ overlap_minutes = o) ~> (pc = "returned"))

\* a run without overlap has returned after several iterations
C3_Witness ==
    pc = "returned" /\ Dur > Ov /\ Ov = 0 /\ iters >= 2

\* C4: with chunk_duration > overlap > 0, the returned list is empty exactly
\* when the entry list is empty.
C4_AtLeastOneWindow ==
    (pc = "returned" /\ Dur > Ov /\ Ov > 0)
    => (chunks = <<>> <=> subtitles = <<>>)

\* C5: every window lists, in input order and each at most once, exactly the
\* entries that meet the selection condition of its planned range, and its
\* planned range is chunk_duration long.
C5_ExactMembership ==
    \A w \in Windows :
        LET sel == chunks[w].subtitles
            ps == chunks[w].planned_start
            pe == chunks[w].planned_end
        IN /\ pe = ps + Dur
           /\ \A a \in 1..Len(sel) : sel[a] \in Positions
           /\ \A a, b \in 1..Len(sel) : a < b => sel[a] < sel[b]
           /\ Members(w) = {i \in Positions : Selected(i, ps, pe)}

\* one window holds both entries in input order, another holds only the second
C5_Witness ==
    /\ pc = "returned"
    /\ Len(subtitles) = 2
    /\ \E w \in Windows : chunks[w].subtitles = <<1, 2>>
    /\ \E w \in Windows : chunks[w].subtitles = <<2>>

\* C9: in every state the i-th window has number i and a non-empty entry list
\* and the next number is the number of windows plus 1; an iteration whose
\* selection is empty leaves the windows and the next number unchanged, and
\* any other iteration appends one window.
C9_ContiguousNumbers ==
    /\ [](/\ \A w \in Windows : chunks[w].number = w /\ chunks[w].subtitles # <<>>
          /\ chunk_number = Len(chunks) + 1)
    /\ [][(pc = "loop" /\ iters' = iters + 1)
            => IF \A i \in Positions : ~Selected(i, chunk_start, chunk_start + Dur)
               THEN chunks' = chunks /\ chunk_number' = chunk_number
               ELSE Len(chunks') = Len(chunks) + 1]_vars

\* the loop has passed an empty planned range and emitted windows as well
C9_Witness ==
    /\ pc = "returned"
    /\ iters > Len(chunks)
    /\ Len(chunks) >= 1
    /\ \E k \in 0..(iters - 2) :
          \A i \in Positions : ~Selected(i, PlannedStart(k), PlannedStart(k) + Dur)

Structural(b) == Len(b.text) >= 1 /\ b.first \in {"1", "2"} /\ Len(b.line2) >= 2

\* a timestamp text int:int:int,int
WellFormedStamp(ts) ==
    /\ Len(ts) = 2
    /\ Len(ts[1]) = 3 /\ \A k \in 1..3 : ts[1][k] \in {"00", "01", "02"}
    /\ Len(ts[2]) = 1 /\ ts[2][1] \in {"000", "500"}

\* line 2 of the block is two well-formed timestamps around one separator
WellFormedTimes(b) ==
    Len(b.line2) = 2 /\ WellFormedStamp(b.line2[1]) /\ WellFormedStamp(b.line2[2])

BlockPositions == 1..Len(blocks)

\* some block passes the structural checks and carries a malformed timestamp
SomeMalformed == \E j \in BlockPositions : Structural(blocks[j]) /\ ~WellFormedTimes(blocks[j])

\* C6: if the input file is missing, or a block that passes the structural
\* checks carries a malformed timestamp, or no block yields an entry, main
\* goes from the parse to its return, and no directory is created and no file
\* written; a directory or a file exists only after a non-empty parse.
C6_NoOutputWithoutEntries ==
    /\ (\/ ~input_exists
        \/ SomeMalformed
        \/ \A j \in BlockPositions : ~Structural(blocks[j]))
       => /\ dirs = {} /\ files = {}
          /\ pc \in {"start", "parse", "done"}
          /\ pc = "done" => printed \in {"file not found", "error parsing", "no subtitles"}
    /\ (dirs # {} \/ files # {})
       => input_exists /\ subtitles # <<>> /\ pc \in {"save", "done"}

\* a well-formed block followed by a block with a malformed timestamp: the run is over, nothing is written
C6_Witness ==
    /\ pc = "done" /\ input_exists
    /\ Len(blocks) = 2
    /\ Structural(blocks[1]) /\ WellFormedTimes(blocks[1])
    /\ Structural(blocks[2]) /\ ~WellFormedTimes(blocks[2])
    /\ printed = "error parsing" /\ files = {} /\ dirs = {}

\* the blocks that pass the structural checks, in file order
StructuralBlocks == SelectSeq(blocks, Structural)

\* the value of a well-formed timestamp text, in milliseconds
StampValue(ts) ==
    LET n == [t \in {"00", "01", "02", "000", "500"} |->
                 IF t = "01" THEN 1 ELSE IF t = "02" THEN 2 ELSE IF t = "500" THEN 500 ELSE 0]
    IN (n[ts[1][1]] * 3600 + n[ts[1][2]] * 60 + n[ts[1][3]]) * 1000 + n[ts[2][1]]

\* C7: once main has parsed a file that exists, the parse has raised exactly
\* when a block that passes the structural checks carries a malformed
\* timestamp; otherwise the entries are those of the blocks that pass the
\* structural checks, in file order, as if the other blocks were not there.
C7_DefectiveBlocksSkipped ==
    (caller = "main" /\ input_exists /\ pc \notin {"start", "parse"})
    => /\ (pc = "done" /\ printed = "error parsing") <=> SomeMalformed
       /\ ~SomeMalformed
          => /\ Len(subtitles) = Len(StructuralBlocks)
             /\ \A i \in 1..Len(StructuralBlocks) :
                   LET b == StructuralBlocks[i]
                   IN /\ subtitles[i].number = (IF b.first = "1" THEN 1 ELSE 2)
                      /\ subtitles[i].start = StampValue(b.line2[1])
                      /\ subtitles[i].end = StampValue(b.line2[2])
                      /\ subtitles[i].text = b.text
             /\ subtitles = parse_srt_file(StructuralBlocks).subtitles

\* a block with a non-integer first line and a malformed timestamp, then a good block: one entry, no error
C7_Witness ==
    /\ caller = "main" /\ input_exists /\ pc = "split"
    /\ Len(blocks) = 2
    /\ ~Structural(blocks[1]) /\ ~WellFormedTimes(blocks[1])
    /\ Structural(blocks[2])
    /\ Len(subtitles) = 1

\* C8: every file is written under the directory given as --output-dir when
\* one is given, and under session_chunks only when none is given.
C8_FilesUnderChosenDir ==
    \A f \in files :
        /\ output_dir_arg # NoDir => f.dir = output_dir_arg
        /\ f.dir = FixedDir => output_dir_arg = NoDir

====
